---- MODULE Spec2Model ----
(***************************************************************************)
(* A model of the proof-of-work node: the chain store (Blockchain), the    *)
(* mempool, the per-block account state, the miner, the miner worker and   *)
(* the network worker.                                                     *)
(*                                                                         *)
(* H256 digests are modelled symbolically: a digest is the tuple of the    *)
(* fields it was computed from, so that hashing is injective and two       *)
(* digests are equal exactly when their preimages are.  The all-zero       *)
(* digest is the empty tuple.  The only place the code orders digests is   *)
(* the proof-of-work test `hash <= difficulty`; for it a header digest has *)
(* a magnitude, which is the header nonce (the miner's random draw stands  *)
(* for the pseudo-random leading bytes of SHA-256), and a difficulty is    *)
(* the magnitude of its 32-byte literal.                                   *)
(***************************************************************************)
EXTENDS Integers, Sequences, FiniteSets, TLC

VARIABLES
    blocks,              \* Blockchain.blocks : hash -> Block
    heights,             \* Blockchain.heights : hash -> height
    tip,                 \* Blockchain.tip
    transaction_map,     \* Mempool.transaction_map : hash -> SignedTransaction
    transaction_set,     \* Mempool.transaction_set : set of hashes
    block_state_map,     \* BlockState.block_state_map : hash -> (Address -> <<nonce, balance>>)
    operating_state,     \* miner Context.operating_state
    control_chan,        \* miner control channel (queue of ControlSignal)
    finished_block_chan, \* channel miner -> miner worker (queue of Block)
    miner_pc,            \* where the miner thread is in miner_loop
    parent_,             \* the miner's snapshot of the tip (local parent_)
    poisoned,            \* mutexes poisoned by a thread that panicked holding them
    dead,                \* threads that have panicked or returned
    call,                \* the last call made on the Blockchain object by a direct caller
    generator,           \* the transaction generator thread: position, receiver_index, pending transaction
    observed,            \* what the receiving ends (test receivers) of the node's outputs saw last
    locks,               \* the three mutexes: owner of each, and what each thread has left to do in its handler
    env                  \* what the callers and the peers may send, fixed by Init

vars == <<blocks, heights, tip, transaction_map, transaction_set, block_state_map,
          operating_state, control_chan, finished_block_chan, miner_pc, parent_,
          poisoned, dead, call, generator, observed, locks, env>>

chain_vars == <<blocks, heights, tip>>
mempool_vars == <<transaction_map, transaction_set>>
miner_vars == <<operating_state, control_chan, finished_block_chan, miner_pc, parent_>>

(***************************************************************************)
(* Bounds of the model.                                                    *)
(***************************************************************************)
\* non-genesis blocks the chain store may hold
MaxBlocks == 3
\* blocks waiting on the finished_block channel
MaxChan == 1
\* signals waiting on the miner control channel
MaxCtl == 1
\* transactions the mempool has seen when the generator stops making more
MaxTxs == 2
\* leaves of the Merkle trees built
MaxLeaves == 5

(***************************************************************************)
(* Generic helpers.                                                        *)
(***************************************************************************)
Put(f, k, v) == [x \in (DOMAIN f) \cup {k} |-> IF x = k THEN v ELSE f[x]]

Del(f, k) == [x \in (DOMAIN f) \ {k} |-> f[x]]

Range(s) == {s[i] : i \in DOMAIN s}

RECURSIVE Reverse(_)
Reverse(s) == IF Len(s) = 0 THEN << >> ELSE Append(Reverse(Tail(s)), Head(s))

\* every ordering of a finite set, as sequences without repetition
RECURSIVE Orderings(_)
Orderings(S) ==
    IF S = {} THEN {<< >>}
    ELSE UNION {{<<x>> \o o : o \in Orderings(S \ {x})} : x \in S}

(***************************************************************************)
(* Digests, addresses, transactions.                                       *)
(***************************************************************************)
ZeroHash == << >>

\* blockchain::DIFFICULTY, as a magnitude
DIFFICULTY == 1

\* key pairs key_pair::given(&[k; 32]); a key pair is named by its public key
Keys == {0, 1, 2}

from_public_key_bytes(pk) == pk + 10

Addresses == {from_public_key_bytes(k) : k \in Keys}

ICO_key == 0

ICO_balance == 1000000

ICO_new(pubkey) ==
    [a \in {from_public_key_bytes(pubkey)} |-> <<0, ICO_balance>>]

Transaction(s, r, v, n) ==
    [sender |-> s, receiver |-> r, value |-> v, account_nonce |-> n]

\* Ed25519 is deterministic: the signature is a function of the key and the message
sign(t, key) == <<key, t.sender, t.receiver, t.value, t.account_nonce>>

verify(t, public_key, signature) == signature = sign(t, public_key)

SignedTransaction(t, sig, pk) ==
    [transaction |-> t, signature |-> sig, public_key |-> pk]

tx_hash(st) ==
    <<st.transaction.sender, st.transaction.receiver, st.transaction.value,
      st.transaction.account_nonce, st.public_key>> \o st.signature

(***************************************************************************)
(* Merkle tree (types/merkle.rs).                                          *)
(***************************************************************************)
hash_two(a, b) == <<a, b>>

pad(layer) ==
    IF Len(layer) % 2 # 0 THEN Append(layer, layer[Len(layer)]) ELSE layer

RECURSIVE chunks2(_)
chunks2(layer) ==
    IF Len(layer) = 0 THEN << >>
    ELSE <<hash_two(layer[1], layer[2])>> \o chunks2(SubSeq(layer, 3, Len(layer)))

RECURSIVE build_layers(_, _)
build_layers(leaves, tree) ==
    IF Len(leaves) > 1
    THEN LET next_layer == chunks2(pad(leaves))
         IN build_layers(next_layer, Append(tree, next_layer))
    ELSE tree

\* MerkleTree::new on the leaf digests: the record of leaves, root and layers
MerkleTree_new(leaves) ==
    IF Len(leaves) = 0 THEN [leaves |-> << >>, root |-> ZeroHash, tree |-> << >>]
    ELSE IF Len(leaves) = 1 THEN [leaves |-> leaves, root |-> leaves[1], tree |-> <<leaves>>]
    ELSE LET tree == build_layers(leaves, <<leaves>>)
         IN [leaves |-> tree[1], root |-> tree[Len(tree)][1], tree |-> tree]

\* a proof that takes the right-hand neighbour at every layer
RECURSIVE proof_right_neighbour(_, _, _, _)
proof_right_neighbour(tree, layer, idx, proof) ==
    IF layer > Len(tree) - 1 THEN proof
    ELSE LET sibling_idx == idx + 1
         IN proof_right_neighbour(tree, layer + 1, idx \div 2,
                Append(proof, IF sibling_idx < Len(tree[layer])
                              THEN tree[layer][sibling_idx + 1]
                              ELSE tree[layer][idx + 1]))

\* for layer in &self.tree[..self.tree.len() - 1], from layer `layer` on;
\* idx counts from 0 as in the code
RECURSIVE proof_layers(_, _, _, _)
proof_layers(tree, layer, idx, proof) ==
    IF layer > Len(tree) - 1 THEN proof
    ELSE LET sibling_idx == IF idx % 2 = 0 THEN idx + 1 ELSE idx - 1
         IN proof_layers(tree, layer + 1, idx \div 2,
                Append(proof, IF sibling_idx < Len(tree[layer])
                              THEN tree[layer][sibling_idx + 1]
                              ELSE tree[layer][idx + 1]))

\* MerkleTree::proof
proof(mt, index) ==
    IF index >= Len(mt.leaves) THEN << >>
    ELSE proof_layers(mt.tree, 1, index, << >>)

\* for sibling in proof
RECURSIVE fold_proof(_, _, _)
fold_proof(current_hash, siblings, idx) ==
    IF Len(siblings) = 0 THEN current_hash
    ELSE fold_proof(IF idx % 2 = 0 THEN hash_two(current_hash, Head(siblings))
                    ELSE hash_two(Head(siblings), current_hash),
                    Tail(siblings), idx \div 2)

\* merkle::verify
merkle_verify(root, datum, siblings, index, leaf_size) ==
    IF index >= leaf_size THEN FALSE
    ELSE fold_proof(datum, siblings, index) = root

merkle_root(transactions) ==
    MerkleTree_new([i \in 1..Len(transactions) |-> tx_hash(transactions[i])]).root

(***************************************************************************)
(* Blocks (types/block.rs).                                                *)
(***************************************************************************)
Header(p, n, d, ts, mr) ==
    [parent |-> p, nonce |-> n, difficulty |-> d, timestamp |-> ts, merkle_root |-> mr]

Block(h, txs) == [header |-> h, content |-> txs]

header_hash(h) == <<h.parent, h.nonce, h.difficulty, h.timestamp, h.merkle_root>>

hash(block) == header_hash(block.header)

get_parent(block) == block.header.parent

\* the magnitude of a header digest, for `hash <= difficulty`
magnitude(h) == h[2]

(***************************************************************************)
(* Chain store (blockchain/mod.rs).                                        *)
(***************************************************************************)
genesis_block == Block(Header(ZeroHash, 0, DIFFICULTY, 0, ZeroHash), << >>)

genesis_hash == hash(genesis_block)

Blockchain_new ==
    [blocks  |-> [h \in {genesis_hash} |-> genesis_block],
     heights |-> [h \in {genesis_hash} |-> 0],
     tip     |-> genesis_hash]

new_height_no_increment(parent_height) == parent_height

new_height(parent_height) == parent_height + 1

tip_moves_always(new_block_height, current_tip_height) == TRUE

tip_moves_on_tie(new_block_height, current_tip_height) ==
    new_block_height >= current_tip_height

tip_moves(new_block_height, current_tip_height) ==
    new_block_height > current_tip_height

insert(bc, block) ==
    LET block_hash == hash(block)
        parent_hash == get_parent(block)
        parent_height ==
            IF parent_hash \in DOMAIN bc.heights THEN bc.heights[parent_hash] ELSE 0
        new_block_height == new_height(parent_height)
        blocks1 == Put(bc.blocks, block_hash, block)
        heights1 == Put(bc.heights, block_hash, new_block_height)
        current_tip_height == heights1[bc.tip]
    IN [blocks  |-> blocks1,
        heights |-> heights1,
        tip     |-> IF tip_moves(new_block_height, current_tip_height)
                    THEN block_hash ELSE bc.tip]

\* the while-let loop of all_blocks_in_longest_chain; `fuel` counts the
\* iterations left before the walk is declared not to terminate
RECURSIVE walk(_, _, _, _)
walk(bc, current_hash, chain, fuel) ==
    IF current_hash \in DOMAIN bc.blocks
    THEN IF fuel = 0
         THEN [chain |-> chain, terminated |-> FALSE]
         ELSE walk(bc, get_parent(bc.blocks[current_hash]),
                   Append(chain, current_hash), fuel - 1)
    ELSE [chain |-> chain, terminated |-> TRUE]

longest_chain_walk(bc) == walk(bc, bc.tip, << >>, Cardinality(DOMAIN bc.blocks))

all_blocks_in_longest_chain_unreversed(bc) == longest_chain_walk(bc).chain

all_blocks_in_longest_chain(bc) == Reverse(longest_chain_walk(bc).chain)

Chain == [blocks |-> blocks, heights |-> heights, tip |-> tip]

SetChain(bc) ==
    /\ blocks' = bc.blocks
    /\ heights' = bc.heights
    /\ tip' = bc.tip

(***************************************************************************)
(* Mempool (miner/mod.rs).                                                 *)
(***************************************************************************)
Mempool_new == [transaction_map |-> << >>, transaction_set |-> {}]

\* an insert that looks for the hash in the map instead of the seen set
mempool_insert_checks_map(mp, transaction) ==
    IF tx_hash(transaction) \in DOMAIN mp.transaction_map THEN mp
    ELSE [transaction_map |-> Put(mp.transaction_map, tx_hash(transaction), transaction),
          transaction_set |-> mp.transaction_set \cup {tx_hash(transaction)}]

mempool_insert(mp, transaction) ==
    IF tx_hash(transaction) \in mp.transaction_set THEN mp
    ELSE [transaction_map |-> Put(mp.transaction_map, tx_hash(transaction), transaction),
          transaction_set |-> mp.transaction_set \cup {tx_hash(transaction)}]

\* a removal that also forgets the hash
mempool_remove_forgets(mp, transaction_hash) ==
    [transaction_map |-> IF transaction_hash \in DOMAIN mp.transaction_map
                         THEN Del(mp.transaction_map, transaction_hash)
                         ELSE mp.transaction_map,
     transaction_set |-> mp.transaction_set \ {transaction_hash}]

mempool_remove(mp, transaction_hash) ==
    IF transaction_hash \in DOMAIN mp.transaction_map
    THEN [mp EXCEPT !.transaction_map = Del(@, transaction_hash)]
    ELSE mp

RECURSIVE remove_all(_, _)
remove_all(mp, transactions) ==
    IF Len(transactions) = 0 THEN mp
    ELSE remove_all(mempool_remove(mp, tx_hash(Head(transactions))), Tail(transactions))

Mempool == [transaction_map |-> transaction_map, transaction_set |-> transaction_set]

SetMempool(mp) ==
    /\ transaction_map' = mp.transaction_map
    /\ transaction_set' = mp.transaction_set

(***************************************************************************)
(* Miner (miner/mod.rs).                                                   *)
(***************************************************************************)
\* bincode size of a SignedTransaction: 20 + 20 + 4 + 4 + (8 + 64) + (8 + 32)
serialized_size == 160

block_limit == 4000

\* header nonces the miner may draw (rng.gen::<u32>()): one whose digest meets
\* the target and one whose digest misses it
Nonces == {0, 2}

\* SystemTime::now() in ms; one instant stands for every time after the genesis
Timestamps == {1}

state_get(state, address) ==
    IF address \in DOMAIN state THEN state[address] ELSE <<0, 0>>

\* a check of the balance alone
rejects_balance_only(transaction, sender_state) ==
    transaction.value > sender_state[2]

rejects(transaction, sender_state) ==
    \/ transaction.value > sender_state[2]
    \/ transaction.account_nonce # sender_state[1] + 1

\* the eviction test compares the transaction nonce with the sender balance
evicts(transaction, sender_state) ==
    transaction.account_nonce < sender_state[2]

\* the receiver's entry read before the sender's entry is written
apply_tx_receiver_read_first(tip_state, transaction) ==
    LET sender_state == state_get(tip_state, transaction.sender)
        receiver_state == state_get(tip_state, transaction.receiver)
        s1 == Put(tip_state, transaction.sender,
                  <<sender_state[1] + 1, sender_state[2] - transaction.value>>)
    IN Put(s1, transaction.receiver,
           <<receiver_state[1], receiver_state[2] + transaction.value>>)

apply_tx(tip_state, transaction) ==
    LET sender_state == state_get(tip_state, transaction.sender)
        s1 == Put(tip_state, transaction.sender,
                  <<sender_state[1] + 1, sender_state[2] - transaction.value>>)
        receiver_state == state_get(s1, transaction.receiver)
    IN Put(s1, transaction.receiver,
           <<receiver_state[1], receiver_state[2] + transaction.value>>)

\* the selection loop over mempool.transaction_map.clone() in iteration order `order`
RECURSIVE select(_, _)
select(order, acc) ==
    IF Len(order) = 0 THEN acc
    ELSE LET tx == Head(order)
             transaction == tx.transaction
             sender_state == state_get(acc.tip_state, transaction.sender)
         IN IF acc.current_size + serialized_size > block_limit THEN acc
            ELSE IF rejects(transaction, sender_state)
            THEN select(Tail(order),
                        [acc EXCEPT !.mp = IF evicts(transaction, sender_state)
                                           THEN mempool_remove(@, tx_hash(tx)) ELSE @])
            ELSE select(Tail(order),
                        [acc EXCEPT !.tip_state = apply_tx(@, transaction),
                                    !.current_size = @ + serialized_size,
                                    !.transactions = Append(@, tx)])

\* the clean-up loop after a successful block, in iteration order `order`;
\* tip_state.get(&sender).unwrap() panics on a sender without an entry
RECURSIVE cleanup(_, _, _)
cleanup(order, tip_state, acc) ==
    IF Len(order) = 0 \/ acc.panicked THEN acc
    ELSE LET tx == Head(order)
             sender == tx.transaction.sender
         IN IF sender \notin DOMAIN tip_state
            THEN [acc EXCEPT !.panicked = TRUE]
            ELSE cleanup(Tail(order), tip_state,
                         [acc EXCEPT !.mp =
                             IF /\ rejects(tx.transaction, tip_state[sender])
                                /\ evicts(tx.transaction, tip_state[sender])
                             THEN mempool_remove(@, tx_hash(tx)) ELSE @])

meets_target(block, difficulty) == magnitude(hash(block)) <= difficulty

\* the candidate block of one pass: the snapshot of the parent's state, the
\* selection over the mempool in iteration order `order`, the drawn nonce
candidate(mp, tip_state, parent, order, nonce, timestamp) ==
    LET sel == select(order, [tip_state |-> tip_state, transactions |-> << >>,
                              mp |-> mp, current_size |-> 0])
    IN [block |-> Block(Header(parent, nonce, DIFFICULTY, timestamp,
                               merkle_root(sel.transactions)), sel.transactions),
        tip_state |-> sel.tip_state,
        mp |-> sel.mp]

\* a miner that files the state it derived under the parent of the block
commit_at_parent(cand, state_map) ==
    [mp |-> remove_all(cand.mp, cand.block.content),
     state_map |-> Put(state_map, get_parent(cand.block), cand.tip_state)]

\* the branch taken when the block meets the target, up to the clean-up loop
commit(cand, state_map) ==
    [mp |-> remove_all(cand.mp, cand.block.content),
     state_map |-> Put(state_map, hash(cand.block), cand.tip_state)]

(***************************************************************************)
(* Network worker (network/worker.rs).                                     *)
(***************************************************************************)
last(s) == s[Len(s)]

front(s) == SubSeq(s, 1, Len(s) - 1)

\* a handler that checks no signature
no_signature_verified(block) == TRUE

all_signatures_verify(block) ==
    \A i \in 1..Len(block.content) :
        verify(block.content[i].transaction, block.content[i].public_key,
               block.content[i].signature)

\* insert a block under the chain lock, then take the mempool lock (which
\* panics when poisoned) and remove the transactions of `removed`
install(acc, block, removed, announced) ==
    LET bc1 == insert(acc.bc, block)
    IN IF acc.mempool_poisoned
       THEN [acc EXCEPT !.bc = bc1, !.panicked = TRUE]
       ELSE [acc EXCEPT !.bc = bc1,
                        !.mp = remove_all(@, removed.content),
                        !.broadcast_blocks = Append(@, hash(announced)),
                        !.process_blocks = Append(@, announced)]

\* a scan that installs the children it finds and keeps them in the buffer
RECURSIVE scan_orphans_keeps_found(_, _, _)
scan_orphans_keeps_found(orphans, block, acc) ==
    IF Len(orphans) = 0 \/ acc.panicked THEN acc
    ELSE LET orphan == Head(orphans)
         IN IF get_parent(orphan) = hash(block)
            THEN scan_orphans_keeps_found(Tail(orphans), block,
                     [install(acc, orphan, block, block)
                          EXCEPT !.keep_orphans = Append(@, orphan)])
            ELSE scan_orphans_keeps_found(Tail(orphans), block,
                     [acc EXCEPT !.keep_orphans = Append(@, orphan)])

\* for orphan in orphan_buffer.orphans.clone()
RECURSIVE scan_orphans(_, _, _)
scan_orphans(orphans, block, acc) ==
    IF Len(orphans) = 0 \/ acc.panicked THEN acc
    ELSE LET orphan == Head(orphans)
         IN IF get_parent(orphan) = hash(block)
            THEN scan_orphans(Tail(orphans), block, install(acc, orphan, block, block))
            ELSE scan_orphans(Tail(orphans), block,
                              [acc EXCEPT !.keep_orphans = Append(@, orphan)])

\* while !process_blocks.is_empty(); `fuel` counts the iterations left
\* before the loop is declared not to terminate
RECURSIVE drain(_, _)
drain(acc, fuel) ==
    IF Len(acc.process_blocks) = 0 \/ acc.panicked THEN acc
    ELSE IF fuel = 0 THEN [acc EXCEPT !.terminated = FALSE]
    ELSE LET block == last(acc.process_blocks)
             popped == [acc EXCEPT !.process_blocks = front(@)]
             scanned == scan_orphans(acc.orphans, block, popped)
         IN IF scanned.panicked THEN scanned
            ELSE drain([scanned EXCEPT !.orphans = scanned.keep_orphans,
                                       !.keep_orphans = << >>], fuel - 1)

pow_ok(block) == magnitude(hash(block)) <= DIFFICULTY

\* the body of 'block: for block in blocks
handle_block(acc, block) ==
    IF hash(block) \in DOMAIN acc.bc.blocks THEN acc
    ELSE IF ~pow_ok(block) THEN acc
    ELSE IF ~all_signatures_verify(block) THEN acc
    ELSE LET parent_hash == get_parent(block)
             placed ==
                 IF parent_hash \in DOMAIN acc.bc.blocks
                 THEN install(acc, block, block, block)
                 ELSE [acc EXCEPT !.orphans = Append(@, block),
                                  !.parent_blocks = Append(@, parent_hash)]
         IN drain(placed, 2 * Len(placed.orphans) + 2)

RECURSIVE blocks_loop(_, _)
blocks_loop(msg, acc) ==
    IF Len(msg) = 0 \/ acc.panicked THEN acc
    ELSE blocks_loop(Tail(msg), handle_block(acc, Head(msg)))

\* Message::Blocks(blocks): the state and the sends it ends with
handle_blocks(bc, mp, mempool_poisoned, msg) ==
    blocks_loop(msg, [bc |-> bc, mp |-> mp, mempool_poisoned |-> mempool_poisoned,
                      broadcast_blocks |-> << >>, parent_blocks |-> << >>,
                      process_blocks |-> << >>, orphans |-> << >>,
                      keep_orphans |-> << >>, panicked |-> FALSE,
                      terminated |-> TRUE])

\* Message::Transactions(txs)
RECURSIVE handle_transactions(_, _)
handle_transactions(txs, acc) ==
    IF Len(txs) = 0 THEN acc
    ELSE LET tx == Head(txs)
         IN IF verify(tx.transaction, tx.public_key, tx.signature)
            THEN handle_transactions(Tail(txs),
                     [mp |-> mempool_insert(acc.mp, tx),
                      broadcast_transactions |-> Append(acc.broadcast_transactions, tx_hash(tx))])
            ELSE handle_transactions(Tail(txs), acc)

(***************************************************************************)
(* What the peers and the callers may send.                                *)
(***************************************************************************)
\* a digest that is the Merkle root of no transaction list of the model
BadRoot == hash_two(ZeroHash, ZeroHash)

\* a header variant: the fields of a block a peer builds on a given parent
Variant(n, d, ok, txs) == [nonce |-> n, difficulty |-> d, root_ok |-> ok, txs |-> txs]

child(p, v) ==
    Block(Header(p, v.nonce, v.difficulty, 1,
                 IF v.root_ok THEN merkle_root(v.txs) ELSE BadRoot), v.txs)

a0 == from_public_key_bytes(0)
a1 == from_public_key_bytes(1)
a2 == from_public_key_bytes(2)

signed(t, key) == SignedTransaction(t, sign(t, key), key)

\* a0 pays a1, first and second transaction of a0
tA1 == signed(Transaction(a0, a1, 600000, 1), 0)
tA2 == signed(Transaction(a0, a1, 1, 2), 0)
\* a transaction of a0 with a nonce far ahead
tA5 == signed(Transaction(a0, a1, 1, 5), 0)
\* a transaction of a0 carrying a signature made with another key
tForged == SignedTransaction(Transaction(a0, a1, 1, 1),
                             sign(Transaction(a0, a1, 1, 1), 1), 0)

\* a0 pays itself
\* the whole balance of the ICO account, and a payment of the same nonce
tDrain == signed(Transaction(a0, a1, ICO_balance, 1), 0)
tLate == signed(Transaction(a0, a1, 1, 1), 0)

\* signed by key 1 under its own public key, but naming a0 as the sender
tImpostor == signed(Transaction(a0, a1, 1, 1), 1)

tSelf == signed(Transaction(a0, a0, 400000, 1), 0)

\* a1 pays a0 without ever having received anything
tB1 == signed(Transaction(a1, a0, 1, 1), 1)

honest == Variant(0, DIFFICULTY, TRUE, << >>)
honest1 == Variant(1, DIFFICULTY, TRUE, << >>)

weak == Variant(2, DIFFICULTY, TRUE, << >>)

Envs ==
    { \* forks and orphans of well-formed empty blocks
      [id |-> 1, signals |-> {"Start"}, batch |-> 2, txs |-> {},
       variants |-> {honest, honest1}, orphan_variants |-> {honest},
       generators |-> {}, hashes |-> 1, trace |-> {}],
      \* headers that miss the target, or state another difficulty
      [id |-> 2, signals |-> {"Start"}, batch |-> 2, txs |-> {},
       variants |-> {weak, Variant(1, 0, TRUE, << >>)},
       orphan_variants |-> {honest},
       generators |-> {}, hashes |-> 1, trace |-> {}],
      \* headers whose Merkle root is not the root of the content
      [id |-> 7, signals |-> {"Start"}, batch |-> 2, txs |-> {},
       variants |-> {Variant(0, DIFFICULTY, FALSE, << >>)},
       orphan_variants |-> {honest},
       generators |-> {}, hashes |-> 1, trace |-> {}],
      \* gossiped transactions, mined into blocks
      [id |-> 3, signals |-> {"Start"}, batch |-> 2, txs |-> {tA1, tA2},
       variants |-> {honest}, orphan_variants |-> {honest},
       generators |-> {}, hashes |-> 1, trace |-> {}],
      \* peer blocks that carry a gossiped transaction, or one badly signed
      [id |-> 4, signals |-> {"Start"}, batch |-> 2, txs |-> {tA1},
       variants |-> {Variant(0, DIFFICULTY, TRUE, <<tA1>>),
                     Variant(0, DIFFICULTY, TRUE, <<tForged>>)},
       orphan_variants |-> {honest},
       generators |-> {}, hashes |-> 1, trace |-> {}],
      \* peer blocks that carry a transaction the sender's state does not allow
      [id |-> 5, signals |-> {"Start"}, batch |-> 2, txs |-> {},
       variants |-> {Variant(0, DIFFICULTY, TRUE, <<tA5>>)},
       orphan_variants |-> {honest},
       generators |-> {}, hashes |-> 1, trace |-> {}],
      \* a gossiped transaction whose sender has no entry in the account state
      [id |-> 6, signals |-> {"Start"}, batch |-> 2, txs |-> {tB1},
       variants |-> {honest}, orphan_variants |-> {honest},
       generators |-> {}, hashes |-> 1, trace |-> {}],
      \* the transaction generator of the ICO account started
      [id |-> 8, signals |-> {"Start"}, batch |-> 1, txs |-> {},
       variants |-> {}, orphan_variants |-> {},
       generators |-> {0}, hashes |-> 1, trace |-> {}],
      \* the generator beside peers whose blocks move the tip
      [id |-> 9, signals |-> {}, batch |-> 1, txs |-> {},
       variants |-> {honest}, orphan_variants |-> {},
       generators |-> {0}, hashes |-> 1, trace |-> {}] }

\* blocks a peer may have built on the blocks of the store
Level1 == {child(h, v) : h \in DOMAIN blocks, v \in env.variants}

\* blocks a peer may have built on a block that extends the tip
Level2 == {child(hash(b), v) :
               b \in {c \in Level1 : get_parent(c) = tip /\ hash(c) \notin DOMAIN blocks},
               v \in env.orphan_variants}

\* blocks a peer may have built on those, when its messages are long
\* enough to carry a chain of three
Level3 == IF env.batch > 2
          THEN {child(hash(b), v) : b \in Level2, v \in env.orphan_variants}
          ELSE {}

PeerBlocks == {blocks[tip]} \cup Level1 \cup Level2

Batches(S, n) == UNION {[1..k -> S] : k \in 1..n}

\* The Blocks messages a peer may send: up to env.batch blocks, all but the
\* last of them blocks whose parent the store does not hold.  (A block whose
\* parent is known is handled in full before the next block of the message,
\* so a message that carries it first acts as two messages do.)
BlockBatches ==
    {prefix \o <<block>> :
         prefix \in UNION {[1..k -> Level2 \cup Level3] : k \in 0..(env.batch - 1)},
         block \in PeerBlocks}

(***************************************************************************)
(* The receiving ends of the node's outputs: the message the last handler  *)
(* step was given, the reply it wrote to the sending peer, the message it  *)
(* handed to the server for broadcast, and the last block put on the       *)
(* finished_block channel.  They are recorded in the scenarios that attach *)
(* receivers to the miner's side or to the network worker's side           *)
(* (env.trace), as the unit tests do with their TestReceivers.             *)
(***************************************************************************)
Message(type, payload) == [type |-> type, payload |-> payload]

NoMessage == Message("None", << >>)

Nothing == [message |-> NoMessage, reply |-> NoMessage, broadcast |-> NoMessage,
            finished |-> << >>]

\* a message is written only when its payload is not empty
written(type, payload) ==
    IF Len(payload) # 0 THEN Message(type, payload) ELSE NoMessage

Observe(side, message, reply, broadcast) ==
    observed' = IF side \in env.trace
                THEN [observed EXCEPT !.message = message, !.reply = reply,
                                      !.broadcast = broadcast]
                ELSE observed

(***************************************************************************)
(* The mutexes (Arc<Mutex<..>> of main.rs) and the order in which each     *)
(* thread takes and drops them in one pass through its loop body or        *)
(* handler.  A guard bound by `let` is dropped at the end of its block; a  *)
(* guard that is a temporary is dropped at the end of its statement.       *)
(***************************************************************************)
Locks == {"blockchain", "mempool", "block_state"}

Threads == {"miner", "miner_worker", "net1", "net2", "generator", "api"}

lock(l) == <<"lock", l>>
unlock(l) == <<"unlock", l>>
\* peer.write or server.broadcast
write == <<"write", "peer">>
\* finished_block_chan.send
finished == <<"send", "finished_block">>

\* a miner that reads the tip again once it has the mempool
miner_loop_tip_under_mempool ==
    { <<lock("block_state"), unlock("block_state"),
        lock("mempool"), lock("blockchain"), unlock("blockchain"),
        unlock("mempool")>> }

\* miner_loop: the tip, the state of the tip, then the mempool guard to
\* the end of the iteration; when the block meets the target the
\* block-state guard to the end of that branch
miner_loop ==
    { <<lock("blockchain"), unlock("blockchain"),
        lock("block_state"), unlock("block_state"),
        lock("mempool"), unlock("mempool")>>,
      <<lock("blockchain"), unlock("blockchain"),
        lock("block_state"), unlock("block_state"),
        lock("mempool"), lock("block_state"), finished, unlock("block_state"),
        unlock("mempool")>> }

\* miner/worker.rs worker_loop: the chain guard to the end of the iteration
miner_worker_loop ==
    { <<lock("blockchain"), unlock("blockchain")>>,
      <<lock("blockchain"), write, unlock("blockchain")>> }

\* network worker_loop, one sequence per kind of message
net_worker_loop ==
    { \* Ping
      <<write>>,
      \* NewBlockHashes, GetBlocks
      <<lock("blockchain"), unlock("blockchain"), write>>,
      \* NewTransactionHashes, GetTransactions
      <<lock("mempool"), unlock("mempool"), write>>,
      \* Blocks: the chain guard to the end of the arm, the mempool guard
      \* inside the branch that inserts
      <<lock("blockchain"), lock("mempool"), unlock("mempool"), write, write,
        unlock("blockchain")>>,
      \* Blocks that are all orphans: only GetBlocks is written
      <<lock("blockchain"), write, unlock("blockchain")>>,
      \* Transactions: the mempool guard to the end of the arm
      <<lock("mempool"), write, unlock("mempool")>> }

\* generate_transactions: each guard in a block of its own
generator_loop ==
    { <<lock("blockchain"), unlock("blockchain"),
        lock("block_state"), unlock("block_state"),
        lock("mempool"), unlock("mempool"), write>> }

\* api Server: /blockchain/longest-chain and /blockchain/state
api_handlers ==
    { <<lock("blockchain"), unlock("blockchain")>>,
      <<lock("blockchain"), lock("block_state"), unlock("block_state"),
        unlock("blockchain")>> }

Programs(thread) ==
    CASE thread = "miner" -> miner_loop
      [] thread = "miner_worker" -> miner_worker_loop
      [] thread = "generator" -> generator_loop
      [] thread = "api" -> api_handlers
      [] OTHER -> net_worker_loop

Locks_new == [owner |-> [l \in Locks |-> "free"], rest |-> [t \in Threads |-> << >>]]

(***************************************************************************)
(* The node: initial state (main.rs) and the steps of its threads.         *)
(***************************************************************************)
p2p_workers == 4

InitNode ==
    /\ blocks = Blockchain_new.blocks
    /\ heights = Blockchain_new.heights
    /\ tip = Blockchain_new.tip
    /\ transaction_map = Mempool_new.transaction_map
    /\ transaction_set = Mempool_new.transaction_set
    /\ block_state_map = [h \in {genesis_hash} |-> ICO_new(ICO_key)]
    /\ operating_state = "Paused"
    /\ control_chan = << >>
    /\ finished_block_chan = << >>
    /\ miner_pc = "ctl"
    /\ parent_ = ZeroHash
    /\ poisoned = {}
    /\ dead = [miner |-> FALSE, miner_worker |-> FALSE, net |-> 0]
    /\ call = [op |-> "none", block |-> genesis_block]
    /\ generator = [pc |-> "snapshot", receiver_index |-> 0, tx |-> << >>]
    /\ observed = Nothing
    /\ locks = Locks_new

Init == InitNode /\ env \in Envs

\* Handle::start / Handle::update / Handle::exit; the lambda of Start only
\* sets the sleep between iterations and is left out
HandleSend ==
    /\ Len(control_chan) < MaxCtl
    /\ \E signal \in env.signals :
           control_chan' = Append(control_chan, signal)
    /\ UNCHANGED <<chain_vars, mempool_vars, block_state_map, operating_state,
                   finished_block_chan, miner_pc, parent_, poisoned, dead, call,
                   generator, observed, locks, env>>

\* a signal that wakes the paused miner up on Update as on Start
on_signal_update_starts(state, signal) ==
    CASE signal = "Exit" -> "ShutDown"
      [] signal = "Start" -> "Run"
      [] signal = "Update" -> "Run"
      [] OTHER -> state

\* the match on the signal received while Paused
on_signal(state, signal) ==
    CASE signal = "Exit" -> "ShutDown"
      [] signal = "Start" -> "Run"
      [] OTHER -> state

\* miner_loop from the loop head to the snapshot of the tip
MinerControl ==
    /\ ~dead.miner
    /\ miner_pc = "ctl"
    /\ IF operating_state = "Paused"
       THEN /\ control_chan # << >>
            /\ control_chan' = Tail(control_chan)
            /\ operating_state' = on_signal(operating_state, Head(control_chan))
            /\ UNCHANGED <<miner_pc, parent_, dead>>
       ELSE IF operating_state = "ShutDown"
       THEN /\ dead' = [dead EXCEPT !.miner = TRUE]
            /\ UNCHANGED <<control_chan, operating_state, miner_pc, parent_>>
       ELSE LET signal == IF control_chan = << >> THEN "Empty" ELSE Head(control_chan)
            IN /\ control_chan' = IF control_chan = << >> THEN control_chan
                                  ELSE Tail(control_chan)
               /\ IF signal = "Exit"
                  THEN /\ operating_state' = "ShutDown"
                       /\ dead' = [dead EXCEPT !.miner = TRUE]
                       /\ UNCHANGED <<miner_pc, parent_>>
                  ELSE IF signal = "Update"
                  THEN UNCHANGED <<operating_state, miner_pc, parent_, dead>>
                  ELSE IF "blockchain" \in poisoned
                  THEN /\ dead' = [dead EXCEPT !.miner = TRUE]
                       /\ UNCHANGED <<operating_state, miner_pc, parent_>>
                  ELSE /\ parent_' = tip
                       /\ miner_pc' = "mine"
                       /\ UNCHANGED <<operating_state, dead>>
    /\ UNCHANGED <<chain_vars, mempool_vars, block_state_map, finished_block_chan,
                   poisoned, call, generator, observed, locks, env>>

tx_order(mp, order) == [i \in 1..Len(order) |-> mp.transaction_map[order[i]]]

\* the nonces the miner draws: when the finished_block channel or the
\* block-state map is at its bound, only those whose digest misses the target
drawn_nonces ==
    IF /\ Len(finished_block_chan) < MaxChan
       /\ Cardinality(DOMAIN block_state_map) <= MaxBlocks
    THEN Nonces
    ELSE {nonce \in Nonces : nonce > DIFFICULTY}

\* miner_loop from the snapshot of the parent's state to the end of the body
MinerMine ==
    /\ ~dead.miner
    /\ miner_pc = "mine"
    /\ miner_pc' = "ctl"
    /\ parent_' = ZeroHash
    /\ IF \/ "block_state" \in poisoned
          \/ parent_ \notin DOMAIN block_state_map
          \/ "mempool" \in poisoned
       THEN UNCHANGED <<mempool_vars, block_state_map, finished_block_chan, poisoned,
                        dead, observed>>
       ELSE \E order \in Orderings(DOMAIN transaction_map), nonce \in drawn_nonces,
               timestamp \in Timestamps :
            LET cand == candidate(Mempool, block_state_map[parent_], parent_,
                                  tx_order(Mempool, order), nonce, timestamp)
            IN IF ~meets_target(cand.block, DIFFICULTY)
               THEN /\ SetMempool(cand.mp)
                    /\ UNCHANGED <<block_state_map, finished_block_chan, poisoned, dead,
                                   observed>>
               ELSE LET done == commit(cand, block_state_map)
                    IN \E order2 \in Orderings(DOMAIN done.mp.transaction_map) :
                       LET cl == cleanup(tx_order(done.mp, order2), cand.tip_state,
                                         [mp |-> done.mp, panicked |-> FALSE])
                           fatal == cl.panicked \/ dead.miner_worker
                       IN /\ SetMempool(cl.mp)
                          /\ block_state_map' = done.state_map
                          /\ finished_block_chan' =
                                 IF fatal THEN finished_block_chan
                                 ELSE Append(finished_block_chan, cand.block)
                          /\ poisoned' = IF fatal
                                         THEN poisoned \cup {"mempool", "block_state"}
                                         ELSE poisoned
                          /\ dead' = IF fatal THEN [dead EXCEPT !.miner = TRUE] ELSE dead
                          /\ observed' =
                                 IF "miner" \in env.trace /\ ~fatal
                                 THEN [observed EXCEPT !.finished = <<hash(cand.block)>>]
                                 ELSE observed
    /\ UNCHANGED <<chain_vars, operating_state, control_chan, call, generator, locks, env>>

\* a worker that inserts every finished block it has not stored yet
worker_commits_stale(bc, block) == hash(block) \notin DOMAIN bc.blocks

\* the two tests of worker_loop made under the chain lock: the block's
\* parent is still the tip and the block is not stored
worker_commits(bc, block) ==
    /\ bc.tip = get_parent(block)
    /\ hash(block) \notin DOMAIN bc.blocks

\* miner/worker.rs worker_loop: one finished block
MinerWorker ==
    /\ ~dead.miner_worker
    /\ IF finished_block_chan = << >>
       THEN /\ dead.miner
            /\ dead' = [dead EXCEPT !.miner_worker = TRUE]
            /\ UNCHANGED <<chain_vars, finished_block_chan, observed>>
       ELSE LET block == Head(finished_block_chan)
            IN /\ finished_block_chan' = Tail(finished_block_chan)
               /\ IF "blockchain" \in poisoned
                  THEN /\ dead' = [dead EXCEPT !.miner_worker = TRUE]
                       /\ Observe("miner", NoMessage, NoMessage, NoMessage)
                       /\ UNCHANGED chain_vars
                  ELSE /\ UNCHANGED dead
                       /\ IF ~worker_commits(Chain, block)
                          THEN /\ Observe("miner", NoMessage, NoMessage, NoMessage)
                               /\ UNCHANGED chain_vars
                          ELSE /\ Cardinality(DOMAIN blocks) <= MaxBlocks
                               /\ SetChain(insert(Chain, block))
                               /\ Observe("miner", NoMessage, NoMessage,
                                          Message("NewBlockHashes", <<hash(block)>>))
    /\ UNCHANGED <<mempool_vars, block_state_map, operating_state, control_chan,
                   miner_pc, parent_, poisoned, call, generator, locks, env>>

\* network worker_loop on Message::Blocks
NetBlocks ==
    /\ dead.net < p2p_workers
    /\ \E msg \in BlockBatches :
       IF "blockchain" \in poisoned
       THEN /\ dead' = [dead EXCEPT !.net = @ + 1]
            /\ Observe("net", Message("Blocks", msg), NoMessage, NoMessage)
            /\ UNCHANGED <<chain_vars, mempool_vars, poisoned>>
       ELSE LET r == handle_blocks(Chain, Mempool, "mempool" \in poisoned, msg)
            IN /\ Cardinality(DOMAIN r.bc.blocks) <= MaxBlocks + 1
               /\ SetChain(r.bc)
               /\ SetMempool(r.mp)
               /\ poisoned' = IF r.panicked THEN poisoned \cup {"blockchain"} ELSE poisoned
               /\ dead' = IF r.panicked THEN [dead EXCEPT !.net = @ + 1] ELSE dead
               /\ IF r.panicked
                  THEN Observe("net", Message("Blocks", msg), NoMessage, NoMessage)
                  ELSE Observe("net", Message("Blocks", msg),
                               written("GetBlocks", r.parent_blocks),
                               written("NewBlockHashes", r.broadcast_blocks))
    /\ UNCHANGED <<block_state_map, miner_vars, call, generator, locks, env>>

\* network worker_loop on Message::Transactions
NetTransactions ==
    /\ dead.net < p2p_workers
    /\ \E msg \in Batches(env.txs, env.batch) :
       IF "mempool" \in poisoned
       THEN /\ dead' = [dead EXCEPT !.net = @ + 1]
            /\ Observe("net", Message("Transactions", msg), NoMessage, NoMessage)
            /\ UNCHANGED mempool_vars
       ELSE LET r == handle_transactions(msg,
                         [mp |-> Mempool, broadcast_transactions |-> << >>])
            IN /\ SetMempool(r.mp)
               /\ Observe("net", Message("Transactions", msg), NoMessage,
                          written("NewTransactionHashes", r.broadcast_transactions))
               /\ UNCHANGED dead
    /\ UNCHANGED <<chain_vars, block_state_map, miner_vars, poisoned, call, generator,
                   locks, env>>

\* the hashes a peer may name: those of the stored blocks and of the blocks
\* peers have built on them
HashPool == DOMAIN blocks \cup {hash(b) : b \in Level1}

\* the hash lists a peer may send, of up to env.hashes hashes
HashLists == UNION {[1..k -> HashPool] : k \in 0..env.hashes}

\* a handler that asks for every announced block
missing_blocks_all(block_map, block_hashes, missing) == block_hashes

\* for block in block_hashes: push the hashes the store does not hold
RECURSIVE missing_blocks(_, _, _)
missing_blocks(block_map, block_hashes, missing) ==
    IF Len(block_hashes) = 0 THEN missing
    ELSE LET block == Head(block_hashes)
         IN missing_blocks(block_map, Tail(block_hashes),
                           IF block \notin DOMAIN block_map
                           THEN Append(missing, block) ELSE missing)

\* a handler that puts each block it finds in front of those found before
RECURSIVE send_blocks_front(_, _, _)
send_blocks_front(block_map, hashes, send) ==
    IF Len(hashes) = 0 THEN send
    ELSE LET block == Head(hashes)
         IN send_blocks_front(block_map, Tail(hashes),
                              IF block \in DOMAIN block_map
                              THEN <<block_map[block]>> \o send ELSE send)

\* for block in blocks: push the stored block of each hash the store holds
RECURSIVE send_blocks(_, _, _)
send_blocks(block_map, hashes, send) ==
    IF Len(hashes) = 0 THEN send
    ELSE LET block == Head(hashes)
         IN send_blocks(block_map, Tail(hashes),
                        IF block \in DOMAIN block_map
                        THEN Append(send, block_map[block]) ELSE send)

\* network worker_loop on Message::NewBlockHashes
NetNewBlockHashes ==
    /\ dead.net < p2p_workers
    /\ \E block_hashes \in HashLists :
       IF "blockchain" \in poisoned
       THEN /\ dead' = [dead EXCEPT !.net = @ + 1]
            /\ Observe("net", Message("NewBlockHashes", block_hashes),
                       NoMessage, NoMessage)
       ELSE /\ Observe("net", Message("NewBlockHashes", block_hashes),
                       written("GetBlocks", missing_blocks(blocks, block_hashes, << >>)),
                       NoMessage)
            /\ UNCHANGED dead
    /\ UNCHANGED <<chain_vars, mempool_vars, block_state_map, miner_vars, poisoned,
                   call, generator, locks, env>>

\* network worker_loop on Message::GetBlocks
NetGetBlocks ==
    /\ dead.net < p2p_workers
    /\ \E hashes \in HashLists :
       IF "blockchain" \in poisoned
       THEN /\ dead' = [dead EXCEPT !.net = @ + 1]
            /\ Observe("net", Message("GetBlocks", hashes), NoMessage, NoMessage)
       ELSE /\ Observe("net", Message("GetBlocks", hashes),
                       written("Blocks", send_blocks(blocks, hashes, << >>)),
                       NoMessage)
            /\ UNCHANGED dead
    /\ UNCHANGED <<chain_vars, mempool_vars, block_state_map, miner_vars, poisoned,
                   call, generator, locks, env>>

\* main.rs: the receivers of the generator of an account
receiver_addresses(key) ==
    CASE key = 1 -> <<a0, a2>>
      [] key = 2 -> <<a0, a1>>
      [] OTHER -> <<a1, a2>>

\* a generator that pays out the whole balance
generated_value_whole(balance) == balance

\* half the balance, or 1 when that is 0
generated_value(balance) ==
    IF balance \div 2 = 0 THEN 1 ELSE balance \div 2

\* generate_transactions from the loop head to the signed transaction
GeneratorSnapshot ==
    /\ generator.pc = "snapshot"
    /\ Cardinality(transaction_set) < MaxTxs
    /\ \E key \in env.generators :
       IF "blockchain" \in poisoned \/ "block_state" \in poisoned
       THEN generator' = [generator EXCEPT !.pc = "dead"]
       ELSE LET address == from_public_key_bytes(key)
                sender_state == IF tip \in DOMAIN block_state_map
                                THEN state_get(block_state_map[tip], address)
                                ELSE <<0, 0>>
                value == generated_value(sender_state[2])
                receiver == receiver_addresses(key)[generator.receiver_index + 1]
                tx == Transaction(address, receiver, value, sender_state[1] + 1)
            IN IF sender_state[2] = 0
               THEN UNCHANGED generator
               ELSE generator' = [generator EXCEPT !.pc = "insert",
                                                   !.tx = <<signed(tx, key)>>]
    /\ UNCHANGED <<chain_vars, mempool_vars, block_state_map, miner_vars, poisoned,
                   dead, call, observed, locks, env>>

\* generate_transactions from the mempool insert to the end of the loop body
GeneratorInsert ==
    /\ generator.pc = "insert"
    /\ IF "mempool" \in poisoned
       THEN /\ generator' = [generator EXCEPT !.pc = "dead", !.tx = << >>]
            /\ UNCHANGED <<mempool_vars, observed>>
       ELSE /\ SetMempool(mempool_insert(Mempool, generator.tx[1]))
            /\ Observe("net", NoMessage, NoMessage,
                       Message("NewTransactionHashes", <<tx_hash(generator.tx[1])>>))
            /\ generator' = [generator EXCEPT !.pc = "snapshot", !.tx = << >>,
                                              !.receiver_index = 1 - @]
    /\ UNCHANGED <<chain_vars, block_state_map, miner_vars, poisoned, dead, call, locks, env>>

Next ==
    \/ HandleSend
    \/ MinerControl
    \/ MinerMine
    \/ MinerWorker
    \/ NetBlocks
    \/ NetTransactions
    \/ NetNewBlockHashes
    \/ NetGetBlocks
    \/ GeneratorSnapshot
    \/ GeneratorInsert

Spec == Init /\ [][Next]_vars

(***************************************************************************)
(* The node with the miner driven through every method of its Handle       *)
(* (start, update, exit), and with receivers attached to its outputs.      *)
(***************************************************************************)
MinerEnvs ==
    { \* a self-transfer and a payment of the same sender
      [id |-> 11, signals |-> {"Start"}, batch |-> 1,
       txs |-> {tSelf, tA2}, variants |-> {honest}, orphan_variants |-> {honest},
       generators |-> {}, hashes |-> 1, trace |-> {"miner"}],
      \* a transaction whose sender has no entry in the account state
      [id |-> 12, signals |-> {"Start", "Exit"}, batch |-> 1,
       txs |-> {tB1}, variants |-> {honest}, orphan_variants |-> {honest},
       generators |-> {}, hashes |-> 1, trace |-> {"miner"}],
      \* the transaction generator of the ICO account started
      [id |-> 13, signals |-> {"Start"}, batch |-> 1,
       txs |-> {}, variants |-> {}, orphan_variants |-> {},
       generators |-> {0}, hashes |-> 1, trace |-> {"miner"}],
      \* a payment that is stale once the sender's balance is spent
      [id |-> 15, signals |-> {"Start"}, batch |-> 1,
       txs |-> {tDrain, tLate}, variants |-> {}, orphan_variants |-> {},
       generators |-> {}, hashes |-> 1, trace |-> {"miner"}],
      \* a payment with a nonce of the future
      [id |-> 16, signals |-> {"Start"}, batch |-> 1,
       txs |-> {tA5}, variants |-> {}, orphan_variants |-> {},
       generators |-> {}, hashes |-> 1, trace |-> {"miner"}],
      \* every signal of the Handle, in any order
      [id |-> 14, signals |-> {"Start", "Update", "Exit"}, batch |-> 1,
       txs |-> {}, variants |-> {}, orphan_variants |-> {},
       generators |-> {}, hashes |-> 1, trace |-> {"miner"}] }

InitMiner == InitNode /\ env \in MinerEnvs

SpecMiner == InitMiner /\ [][Next]_vars

\* the step that ends a pass of the miner through the loop body: MinerMine
\* is the only action that takes miner_pc from "mine" to "ctl", and it can
\* do so whenever the miner is there
MinerEndsPass == ~dead.miner /\ miner_pc = "mine" /\ miner_pc' = "ctl"

\* the same under fair scheduling of the miner thread and the miner worker
\* thread: a thread that can take a step is not held back forever
SpecMinerFair ==
    /\ InitMiner
    /\ [][Next]_vars
    /\ WF_vars(MinerControl)
    /\ WF_miner_pc(MinerEndsPass)
    /\ WF_vars(MinerWorker)

\* a pass of the miner in which the drawn nonce meets the target: the block
\* is sent to the miner worker, or the thread panics on the way there
MinerFinds ==
    /\ MinerMine
    /\ \/ Len(finished_block_chan') > Len(finished_block_chan)
       \/ dead'.miner # dead.miner

\* the same when, in addition, a pass that can draw a nonce meeting the
\* target again and again does draw one at some time
SpecMinerProgress ==
    /\ InitMiner
    /\ [][Next]_vars
    /\ WF_vars(MinerControl)
    /\ WF_miner_pc(MinerEndsPass)
    /\ WF_vars(MinerWorker)
    /\ SF_vars(MinerFinds)

(***************************************************************************)
(* The node with receivers attached to the network worker's side: the      *)
(* replies it writes to the sending peer and the messages it broadcasts.   *)
(***************************************************************************)
GossipEnvs ==
    { \* peers that send blocks, orphans first, lists of two hashes, and
      \* transactions whose signature or sender is not the key's
      [id |-> 21, signals |-> {}, batch |-> 2, txs |-> {tImpostor, tForged},
       variants |-> {honest}, orphan_variants |-> {honest},
       generators |-> {}, hashes |-> 2, trace |-> {"net"}],
      \* the miner running beside the network worker
      [id |-> 22, signals |-> {"Start"}, batch |-> 1, txs |-> {tA1},
       variants |-> {}, orphan_variants |-> {},
       generators |-> {}, hashes |-> 1, trace |-> {"net"}],
      \* the generator running beside the network worker
      [id |-> 23, signals |-> {}, batch |-> 1, txs |-> {},
       variants |-> {}, orphan_variants |-> {},
       generators |-> {0}, hashes |-> 1, trace |-> {"net"}],
      \* peers that send blocks carrying a transaction whose signature does
      \* not verify, on stored blocks and on blocks the store does not hold
      [id |-> 24, signals |-> {}, batch |-> 2, txs |-> {},
       variants |-> {honest, Variant(0, DIFFICULTY, TRUE, <<tForged>>)},
       orphan_variants |-> {Variant(0, DIFFICULTY, TRUE, <<tForged>>)},
       generators |-> {}, hashes |-> 1, trace |-> {"net"}],
      \* peers that send a chain of three blocks, the last block first
      [id |-> 25, signals |-> {}, batch |-> 3, txs |-> {},
       variants |-> {honest}, orphan_variants |-> {honest},
       generators |-> {}, hashes |-> 1, trace |-> {"net"}],
      \* a gossiped transaction that peers' blocks carry, sent child first
      [id |-> 26, signals |-> {}, batch |-> 2, txs |-> {tA1},
       variants |-> {honest, Variant(0, DIFFICULTY, TRUE, <<tA1>>)},
       orphan_variants |-> {Variant(0, DIFFICULTY, TRUE, <<tA1>>)},
       generators |-> {}, hashes |-> 1, trace |-> {"net"}] }

InitGossip == InitNode /\ env \in GossipEnvs

SpecGossip == InitGossip /\ [][Next]_vars

(***************************************************************************)
(* The Blockchain object alone, driven through its public insert as the    *)
(* unit tests of blockchain/mod.rs drive it.                               *)
(***************************************************************************)
StoreEnvs ==
    { [id |-> 0, signals |-> {}, batch |-> 0, txs |-> {},
       variants |-> {honest, honest1}, orphan_variants |-> {honest},
       generators |-> {}, hashes |-> 1, trace |-> {}] }

\* blocks built on blocks the store does not hold
Orphans == {child(hash(b), v) : b \in {c \in Level1 : hash(c) \notin DOMAIN blocks},
                                v \in env.orphan_variants}

StoreInputs == Range(blocks) \cup Level1 \cup Orphans

InitStore == InitNode /\ env \in StoreEnvs

StoreInsert ==
    /\ \E block \in StoreInputs :
           /\ hash(block) \in DOMAIN blocks \/ Cardinality(DOMAIN blocks) <= MaxBlocks
           /\ call' = [op |-> "insert", block |-> block]
           /\ SetChain(insert(Chain, block))
    /\ UNCHANGED <<mempool_vars, block_state_map, miner_vars, poisoned, dead,
                   generator, observed, locks, env>>

NextStore == StoreInsert

SpecStore == InitStore /\ [][NextStore]_vars

(***************************************************************************)
(* The Mempool object alone, driven through its public insert and remove.  *)
(***************************************************************************)
MempoolEnvs ==
    { [id |-> 20, signals |-> {}, batch |-> 0, txs |-> {tA1, tA2, tSelf, tB1},
       variants |-> {}, orphan_variants |-> {}, generators |-> {}, hashes |-> 1, trace |-> {}] }

InitMempool == InitNode /\ env \in MempoolEnvs

MempoolInsert ==
    /\ \E transaction \in env.txs :
           /\ call' = [op |-> "mempool_insert", transaction |-> transaction]
           /\ SetMempool(mempool_insert(Mempool, transaction))
    /\ UNCHANGED <<chain_vars, block_state_map, miner_vars, poisoned, dead,
                   generator, observed, locks, env>>

MempoolRemove ==
    /\ \E transaction \in env.txs :
           /\ call' = [op |-> "mempool_remove", transaction |-> transaction]
           /\ SetMempool(mempool_remove(Mempool, tx_hash(transaction)))
    /\ UNCHANGED <<chain_vars, block_state_map, miner_vars, poisoned, dead,
                   generator, observed, locks, env>>

NextMempool ==
    \/ MempoolInsert
    \/ MempoolRemove

SpecMempool == InitMempool /\ [][NextMempool]_vars

(***************************************************************************)
(* The threads of the node as users of the three mutexes alone: each       *)
(* thread starts a pass through its loop body or handler and then takes    *)
(* the steps of it; Mutex::lock blocks while another thread is the owner.  *)
(***************************************************************************)
InitLocks == InitNode /\ env \in MempoolEnvs

ThreadBegins ==
    /\ \E thread \in Threads :
          /\ locks.rest[thread] = << >>
          /\ \E program \in Programs(thread) :
                 locks' = [locks EXCEPT !.rest[thread] = program]
    /\ UNCHANGED <<chain_vars, mempool_vars, block_state_map, miner_vars, poisoned,
                   dead, call, generator, observed, env>>

ThreadSteps ==
    /\ \E thread \in Threads :
          /\ locks.rest[thread] # << >>
          /\ LET op == Head(locks.rest[thread])
             IN IF op[1] = "lock"
                THEN /\ locks.owner[op[2]] = "free"
                     /\ locks' = [locks EXCEPT !.owner[op[2]] = thread,
                                               !.rest[thread] = Tail(@)]
                ELSE IF op[1] = "unlock"
                THEN locks' = [locks EXCEPT !.owner[op[2]] = "free",
                                            !.rest[thread] = Tail(@)]
                ELSE locks' = [locks EXCEPT !.rest[thread] = Tail(@)]
    /\ UNCHANGED <<chain_vars, mempool_vars, block_state_map, miner_vars, poisoned,
                   dead, call, generator, observed, env>>

NextLocks ==
    \/ ThreadBegins
    \/ ThreadSteps

SpecLocks == InitLocks /\ [][NextLocks]_vars

(***************************************************************************)
(* The Merkle tree alone: a tree is built from a list of leaf digests, a   *)
(* proof is asked for one index and verified against the root, as          *)
(* tests::merkle_verifying does.                                           *)
(***************************************************************************)
\* two leaf digests, neither of them a digest of two
LeafDigests == {ZeroHash, <<ZeroHash>>}

LeafLists == UNION {[1..n -> LeafDigests] : n \in 1..MaxLeaves}

InitMerkle == InitNode /\ env \in MempoolEnvs

MerkleVerifying ==
    /\ \E input_data \in LeafLists :
       \E index \in 0..(Len(input_data) - 1) :
          LET merkle_tree == MerkleTree_new(input_data)
              siblings == proof(merkle_tree, index)
          IN call' = [op |-> "merkle_verifying", input_data |-> input_data,
                      index |-> index, root |-> merkle_tree.root,
                      proof |-> siblings,
                      verified |-> merkle_verify(merkle_tree.root,
                                                 input_data[index + 1], siblings,
                                                 index, Len(input_data))]
    /\ UNCHANGED <<chain_vars, mempool_vars, block_state_map, miner_vars, poisoned,
                   dead, generator, observed, locks, env>>

NextMerkle == MerkleVerifying

SpecMerkle == InitMerkle /\ [][NextMerkle]_vars

(***************************************************************************)
(* Properties of the chain store.                                          *)
(***************************************************************************)
NonGenesis == (DOMAIN blocks) \ {genesis_hash}

\* C1: every non-genesis block of the store has its parent in the store and
\* stands one above it; the genesis block stands at height 0
C1_ChainClosure ==
    /\ DOMAIN heights = DOMAIN blocks
    /\ genesis_hash \in DOMAIN blocks
    /\ heights[genesis_hash] = 0
    /\ \A h \in NonGenesis :
           /\ get_parent(blocks[h]) \in DOMAIN blocks
           /\ heights[h] = heights[get_parent(blocks[h])] + 1

\* a block committed by the miner worker (it has a state entry) below a block
\* received from a peer (it has none), the latter at height 2 or more
C1_Witness ==
    \E h1 \in NonGenesis, h2 \in NonGenesis :
        /\ h1 \in DOMAIN block_state_map
        /\ h2 \notin DOMAIN block_state_map
        /\ get_parent(blocks[h2]) = h1

TipIsHighest ==
    /\ tip \in DOMAIN blocks
    /\ \A h \in DOMAIN blocks : heights[tip] >= heights[h]

\* C2: the tip is a stored block of maximal height, and the height of the tip
\* never decreases
C2_TipHighestAndMonotone ==
    /\ []TipIsHighest
    /\ [][heights'[tip'] >= heights[tip]]_vars

\* a fork: a stored block other than the tip at the height of the tip
C2_Witness ==
    /\ heights[tip] >= 1
    /\ \E h \in DOMAIN blocks : h # tip /\ heights[h] = heights[tip]

\* C3: insert(b) makes b the tip exactly when the height it gives b is
\* strictly above the height of the tip; on a tie the tip stays
C3_ForkRule ==
    [][call'.op = "insert" =>
           LET b == hash(call'.block)
           IN tip' = IF heights'[b] > heights[tip] THEN b ELSE tip]_vars

\* a block has been inserted at the height of the tip, and the tip stayed
C3_Witness ==
    /\ call.op = "insert"
    /\ hash(call.block) # tip
    /\ heights[hash(call.block)] = heights[tip]

\* C4: inserting a block the store already holds changes nothing
C4_Idempotent ==
    [][(call'.op = "insert" /\ hash(call'.block) \in DOMAIN blocks) =>
           UNCHANGED chain_vars]_vars

\* C5: a block whose parent the store does not hold is not stored and does
\* not become the tip
C5_OrphanNotStored ==
    [][(/\ call'.op = "insert"
        /\ hash(call'.block) \notin DOMAIN blocks
        /\ get_parent(call'.block) \notin DOMAIN blocks) =>
           (hash(call'.block) \notin DOMAIN blocks' /\ tip' # hash(call'.block))]_vars

\* C6: the longest chain is computed in finitely many steps, runs from the
\* genesis block to the tip along parent links and has heights[tip] + 1 blocks
C6_LongestChain ==
    LET chain == all_blocks_in_longest_chain(Chain)
    IN /\ longest_chain_walk(Chain).terminated
       /\ Len(chain) = heights[tip] + 1
       /\ chain[1] = genesis_hash
       /\ chain[Len(chain)] = tip
       /\ \A i \in 1..(Len(chain) - 1) : get_parent(blocks[chain[i + 1]]) = chain[i]

\* the tip stands at height 2 or more
C6_Witness == heights[tip] >= 2

(***************************************************************************)
(* Properties of the stored blocks and of the state kept per block.        *)
(***************************************************************************)
\* C7: every non-genesis block of the store has a hash at or below the
\* difficulty its own header states
C7_ProofOfWork ==
    \A h \in NonGenesis :
        magnitude(h) <= blocks[h].header.difficulty

\* C8: the Merkle root in the header of every stored block is the root of
\* the tree over the transactions of the block
C8_MerkleBinding ==
    \A h \in DOMAIN blocks :
        blocks[h].header.merkle_root = merkle_root(blocks[h].content)

\* the transactions of a block applied in content order to a state
RECURSIVE replay(_, _)
replay(state, transactions) ==
    IF Len(transactions) = 0 THEN state
    ELSE replay(apply_tx(state, Head(transactions).transaction), Tail(transactions))

\* C9: every stored block has an entry in the block-state map, and the entry
\* of a non-genesis block is the state of its parent after the transactions
\* of the block, applied in content order
C9_StatePerBlock ==
    /\ \A h \in DOMAIN blocks : h \in DOMAIN block_state_map
    /\ \A h \in NonGenesis :
           LET parent == get_parent(blocks[h])
           IN (h \in DOMAIN block_state_map /\ parent \in DOMAIN block_state_map) =>
                  block_state_map[h] = replay(block_state_map[parent], blocks[h].content)

\* C10: the nonce of every transaction of a stored block is one above the
\* nonce its sender has in the state of the parent block (0 without an entry)
C10_NonceMonotone ==
    \A h \in NonGenesis :
        LET parent == get_parent(blocks[h])
        IN parent \in DOMAIN block_state_map =>
               \A i \in 1..Len(blocks[h].content) :
                   LET transaction == blocks[h].content[i].transaction
                   IN transaction.account_nonce =
                          state_get(block_state_map[parent], transaction.sender)[1] + 1

(***************************************************************************)
(* Properties of the account state and of the mempool.                     *)
(***************************************************************************)
\* the sum of the balances of a state
RECURSIVE total(_)
total(state) ==
    IF DOMAIN state = {} THEN 0
    ELSE LET a == CHOOSE x \in DOMAIN state : TRUE
         IN state[a][2] + total(Del(state, a))

\* the entries of the block-state map the miner has written
MinerWritten == (DOMAIN block_state_map) \ {genesis_hash}

\* C11: every state entry the miner writes has the sum of balances of the
\* state of the parent block, which is the ICO total, and every balance in
\* it lies between 0 and that total, which a u32 holds (no update of a
\* balance went below 0 or wrapped around); the parent of an entry is the
\* parent field of the header its key digests
C11_Conservation ==
    \A h \in MinerWritten :
        /\ total(block_state_map[h]) = ICO_balance
        /\ h[1] \in DOMAIN block_state_map
        /\ total(block_state_map[h]) = total(block_state_map[h[1]])
        /\ \A a \in DOMAIN block_state_map[h] :
               block_state_map[h][a][2] \in 0..ICO_balance

\* the miner has written the state of a block that carries the self-transfer
\* followed by a payment of the same sender
C11_Witness ==
    \E h \in MinerWritten :
        /\ block_state_map[h][a0] = <<2, ICO_balance - 1>>
        /\ block_state_map[h][a1] = <<0, 1>>

MapWithinSeen == DOMAIN transaction_map \subseteq transaction_set

RemoveKeepsSeen ==
    \A h \in transaction_set :
        LET mp == mempool_remove(Mempool, h)
        IN /\ mp.transaction_set = transaction_set
           /\ DOMAIN mp.transaction_map = (DOMAIN transaction_map) \ {h}
           /\ \A k \in DOMAIN mp.transaction_map : mp.transaction_map[k] = transaction_map[k]

\* C12: every hash of transaction_map is in transaction_set, transaction_set
\* never loses an element, and remove(h) takes h out of transaction_map and
\* changes nothing else
C12_MempoolInvariant ==
    /\ []MapWithinSeen
    /\ []RemoveKeepsSeen
    /\ [][transaction_set \subseteq transaction_set']_vars

\* a transaction has been inserted and later removed, another one is pending
C12_Witness ==
    /\ transaction_set \ DOMAIN transaction_map # {}
    /\ DOMAIN transaction_map # {}

\* C13: insert(st) puts st into the map and its hash into the seen set when
\* the hash is not in the seen set, and changes nothing when it is; so a
\* transaction that was removed is not put back by a later insert
C13_InsertOnce ==
    [][call'.op = "mempool_insert" =>
           LET st == call'.transaction
               h == tx_hash(st)
           IN IF h \in transaction_set
              THEN UNCHANGED mempool_vars
              ELSE /\ transaction_set' = transaction_set \cup {h}
                   /\ DOMAIN transaction_map' = (DOMAIN transaction_map) \cup {h}
                   /\ transaction_map'[h] = st
                   /\ \A k \in DOMAIN transaction_map :
                          transaction_map'[k] = transaction_map[k]]_vars

\* the last call was an insert of a transaction that had been inserted and
\* removed before, and the transaction is not in the map
C13_Witness ==
    /\ call.op = "mempool_insert"
    /\ tx_hash(call.transaction) \in transaction_set
    /\ tx_hash(call.transaction) \notin DOMAIN transaction_map

(***************************************************************************)
(* Properties of the miner and of the miner worker.                        *)
(***************************************************************************)
\* a step that puts a block on the finished_block channel
Emits == Len(finished_block_chan') > Len(finished_block_chan)

\* a step of the miner that writes the block-state map or the mempool
MinerWrites ==
    \/ block_state_map' # block_state_map
    \/ /\ miner_pc = "mine"
       /\ miner_pc' = "ctl"
       /\ mempool_vars' # mempool_vars

\* a step that takes `signal` from the head of the control channel
Consumes(signal) ==
    /\ control_chan # << >>
    /\ Head(control_chan) = signal
    /\ control_chan' = Tail(control_chan)

\* C14: the miner starts Paused; it emits a block and writes the mempool and
\* the block-state map only while Running; it leaves Paused for Running only
\* by consuming a Start, an Update consumed while Paused leaves it Paused,
\* and once it has consumed an Exit it stays ShutDown (so emits nothing)
C14_MinerStates ==
    /\ operating_state = "Paused"
    /\ [][/\ (Emits \/ MinerWrites) =>
                 (operating_state = "Run" /\ operating_state' = "Run")
          /\ (operating_state = "Paused" /\ operating_state' = "Run") =>
                 Consumes("Start")
          /\ (operating_state = "Paused" /\ Consumes("Update")) =>
                 operating_state' = "Paused"
          /\ Consumes("Exit") => operating_state' = "ShutDown"
          /\ operating_state = "ShutDown" => operating_state' = "ShutDown"]_vars

\* the miner has emitted a block and has then consumed an Exit
C14_Witness ==
    /\ observed.finished # << >>
    /\ operating_state = "ShutDown"

\* C15: once an Exit is on the control channel, the miner eventually is in
\* ShutDown and its loop has returned
C15_ExitShutsDown ==
    [](("Exit" \in Range(control_chan)) =>
           <>(operating_state = "ShutDown" /\ dead.miner))

\* the block a step appends to the finished_block channel
emitted == finished_block_chan'[Len(finished_block_chan')]

\* every stored block is the genesis block or one the miner has mined: the
\* miner alone writes the block-state map, an entry per block it finds
OnlyOwnBlocks == DOMAIN blocks \subseteq DOMAIN block_state_map

\* C16: with the miner Running and only its own blocks in the store, every
\* block it emits on finished_block after the first has as parent the hash
\* of the block it emitted just before
C16_FinishedChain ==
    [][(/\ Emits
        /\ operating_state = "Run"
        /\ OnlyOwnBlocks
        /\ observed.finished # << >>) =>
           get_parent(emitted) = observed.finished[1]]_vars

\* a step of the miner worker that takes a block from the finished_block
\* channel
WorkerTakes ==
    /\ finished_block_chan # << >>
    /\ finished_block_chan' = Tail(finished_block_chan)

\* C17: the miner worker inserts the block it takes, and broadcasts
\* NewBlockHashes of its hash alone, only if the block's parent is the tip and
\* the block is not stored; a block whose parent is not the tip is neither
\* inserted nor broadcast; a block it inserts is the tip afterwards
C17_WorkerCommit ==
    [][WorkerTakes =>
          LET block == Head(finished_block_chan)
              inserted == DOMAIN blocks' # DOMAIN blocks
              announced == observed'.broadcast # NoMessage
          IN /\ (inserted \/ announced) =>
                    /\ get_parent(block) = tip
                    /\ hash(block) \notin DOMAIN blocks
                    /\ DOMAIN blocks' = DOMAIN blocks \cup {hash(block)}
                    /\ blocks'[hash(block)] = block
                    /\ observed'.broadcast =
                           Message("NewBlockHashes", <<hash(block)>>)
                    /\ tip' = hash(block)
             /\ get_parent(block) # tip =>
                    /\ ~inserted
                    /\ ~announced
             /\ inserted <=> announced]_vars

\* the worker has inserted and announced the block the miner emitted last
\* and it is the tip
C17_Witness ==
    /\ observed.finished # << >>
    /\ observed.broadcast = Message("NewBlockHashes", observed.finished)
    /\ tip = observed.finished[1]
    /\ finished_block_chan = << >>

\* a step in which the network worker has handled a message of type `type`
Handles(type) ==
    /\ observed' # observed
    /\ observed'.message.type = type

\* C18: on NewBlockHashes(hs) the worker replies GetBlocks with exactly the
\* hashes of hs the chain store does not hold, in the order received, and
\* writes no reply when the store holds them all
C18_NewBlockHashesReply ==
    [][Handles("NewBlockHashes") =>
          LET hs == observed'.message.payload
              absent(h) == h \notin DOMAIN blocks
          IN /\ observed'.reply =
                    IF SelectSeq(hs, absent) = << >> THEN NoMessage
                    ELSE Message("GetBlocks", SelectSeq(hs, absent))
             /\ UNCHANGED blocks]_vars

\* a list of a stored hash and a missing one was answered by a request for
\* the missing one alone
C18_Witness ==
    /\ observed.message.type = "NewBlockHashes"
    /\ Len(observed.message.payload) = 2
    /\ observed.message.payload[1] \in DOMAIN blocks
    /\ observed.message.payload[2] \notin DOMAIN blocks
    /\ observed.reply = Message("GetBlocks", <<observed.message.payload[2]>>)

\* C19: on GetBlocks(hs) the worker replies Blocks with exactly the stored
\* blocks whose hashes are in hs, in the order of the request, and writes no
\* reply when the store holds none of them
C19_GetBlocksReply ==
    [][Handles("GetBlocks") =>
          LET hs == observed'.message.payload
              present(h) == h \in DOMAIN blocks
              found == SelectSeq(hs, present)
          IN /\ observed'.reply =
                    IF found = << >> THEN NoMessage
                    ELSE Message("Blocks", [i \in 1..Len(found) |-> blocks[found[i]]])
             /\ UNCHANGED blocks]_vars

\* a request for two different stored blocks was answered by both
C19_Witness ==
    /\ observed.message.type = "GetBlocks"
    /\ Len(observed.message.payload) = 2
    /\ observed.message.payload[1] # observed.message.payload[2]
    /\ observed.reply.type = "Blocks"
    /\ Len(observed.reply.payload) = 2
    /\ hash(observed.reply.payload[1]) = observed.message.payload[1]

\* C20: after a Blocks message the NewBlockHashes broadcast lists exactly
\* the hashes of the blocks the message added to the chain store, each once
\* and no block before its parent; nothing is broadcast when none was added
C20_BlocksBroadcast ==
    [][Handles("Blocks") =>
          LET new == DOMAIN blocks' \ DOMAIN blocks
              sent == observed'.broadcast
          IN IF new = {} THEN sent = NoMessage
             ELSE /\ sent.type = "NewBlockHashes"
                  /\ Range(sent.payload) = new
                  /\ Len(sent.payload) = Cardinality(new)
                  /\ \A i, j \in DOMAIN sent.payload :
                         i < j => get_parent(blocks'[sent.payload[i]]) # sent.payload[j]]_vars

\* a block a network worker accepts once its parent is stored
valid_block(block) == pow_ok(block) /\ all_signatures_verify(block)

\* C21: when one Blocks message delivers a valid block C whose parent B is
\* not stored and then the valid block B whose parent is stored, B and C
\* are both in the chain store afterwards and the broadcast is
\* NewBlockHashes of hash(B), hash(C) in this order
C21_OrphanReconciliation ==
    [][(/\ Handles("Blocks")
        /\ Len(observed'.message.payload) = 2
        /\ LET C == observed'.message.payload[1]
               B == observed'.message.payload[2]
           IN /\ valid_block(B)
              /\ valid_block(C)
              /\ get_parent(C) = hash(B)
              /\ get_parent(B) \in DOMAIN blocks
              /\ hash(B) \notin DOMAIN blocks
              /\ hash(C) \notin DOMAIN blocks
              /\ "mempool" \notin poisoned) =>
          LET C == observed'.message.payload[1]
              B == observed'.message.payload[2]
          IN /\ {hash(B), hash(C)} \subseteq DOMAIN blocks'
             /\ observed'.broadcast =
                    Message("NewBlockHashes", <<hash(B), hash(C)>>)]_vars

\* C22: a valid block received in a Blocks message while its parent was
\* not stored is in the chain store as soon as its parent is installed by a
\* later Blocks message
C22_OrphanKept ==
    [][(/\ observed.message.type = "Blocks"
        /\ Handles("Blocks")
        /\ "mempool" \notin poisoned) =>
          \A i \in DOMAIN observed.message.payload,
             j \in DOMAIN observed'.message.payload :
              LET C == observed.message.payload[i]
                  B == observed'.message.payload[j]
              IN (/\ valid_block(C)
                  /\ get_parent(C) = hash(B)
                  /\ hash(B) \notin DOMAIN blocks
                  /\ hash(B) \in DOMAIN blocks') =>
                     hash(C) \in DOMAIN blocks']_vars

\* the signed transaction a mempool hash was computed from
hashed(h) ==
    SignedTransaction(Transaction(h[1], h[2], h[3], h[4]), SubSeq(h, 6, Len(h)), h[5])

\* the signature verifies under the public key and the sender is the
\* address of that key
well_signed(st) ==
    /\ verify(st.transaction, st.public_key, st.signature)
    /\ st.transaction.sender = from_public_key_bytes(st.public_key)

\* C23: every transaction in transaction_map, and every transaction whose
\* hash is in transaction_set, has a signature that verifies under its
\* public key and a sender that is the address of that public key
C23_AdmittedWellSigned ==
    /\ \A h \in DOMAIN transaction_map : well_signed(transaction_map[h])
    /\ \A h \in transaction_set : well_signed(hashed(h))

\* C24: on a Transactions message the NewTransactionHashes broadcast holds
\* only hashes of transactions the message added to the mempool, and nothing
\* is broadcast when it added none
C24_BroadcastNewOnly ==
    [][Handles("Transactions") =>
          LET new == transaction_set' \ transaction_set
              sent == observed'.broadcast
          IN IF new = {} THEN sent = NoMessage
             ELSE /\ sent.type = "NewTransactionHashes"
                  /\ Range(sent.payload) \subseteq new]_vars

\* a pass of the miner through selection that starts from the state of
\* the tip and examines every transaction of the mempool map
SelectionPass ==
    /\ miner_pc = "mine"
    /\ miner_pc' = "ctl"
    /\ parent_ = tip
    /\ parent_ \in DOMAIN block_state_map
    /\ poisoned = {}
    /\ Cardinality(DOMAIN transaction_map) * serialized_size <= block_limit

\* C25: a transaction of the mempool map whose nonce is at most the nonce
\* of its sender in the state of the tip is not in the map after one
\* selection pass of the miner, whatever the sender's balance
C25_StaleEvicted ==
    [][SelectionPass =>
          \A h \in DOMAIN transaction_map :
              LET transaction == transaction_map[h].transaction
                  s == state_get(block_state_map[parent_], transaction.sender)
              IN transaction.account_nonce <= s[1] =>
                     h \notin DOMAIN transaction_map']_vars

\* C26: a transaction that is alone in the mempool map and that the miner
\* rejects without its being stale (its nonce is beyond the next nonce of
\* the sender, or it is the next nonce and the value exceeds the balance)
\* is in the map after the pass
C26_FutureKept ==
    [][(SelectionPass /\ Cardinality(DOMAIN transaction_map) = 1) =>
          \A h \in DOMAIN transaction_map :
              LET transaction == transaction_map[h].transaction
                  s == state_get(block_state_map[parent_], transaction.sender)
              IN (\/ transaction.account_nonce > s[1] + 1
                  \/ /\ transaction.account_nonce = s[1] + 1
                     /\ transaction.value > s[2]) =>
                     h \in DOMAIN transaction_map']_vars

\* the state of the ICO: the ICO account alone, nonce 0, the whole supply
ICO_state == [a \in {a0} |-> <<0, ICO_balance>>]

\* C27: before anything is processed the chain store holds the genesis
\* block alone, at height 0 and as the tip, the longest chain has one
\* block, and the state of the genesis block is the ICO's; that state entry
\* is never changed or removed afterwards
C27_GenesisICO ==
    /\ DOMAIN blocks = {genesis_hash}
    /\ blocks[genesis_hash].header.parent = ZeroHash
    /\ blocks[genesis_hash].content = << >>
    /\ DOMAIN heights = {genesis_hash}
    /\ heights[genesis_hash] = 0
    /\ tip = genesis_hash
    /\ all_blocks_in_longest_chain(Chain) = <<genesis_hash>>
    /\ DOMAIN block_state_map = {genesis_hash}
    /\ [](/\ genesis_hash \in DOMAIN block_state_map
          /\ block_state_map[genesis_hash] = ICO_state)

\* the miner has filed the state of a block in which the ICO account paid,
\* and the state of the genesis block is the ICO's still
C27_Witness ==
    /\ \E h \in DOMAIN block_state_map : block_state_map[h] # ICO_state
    /\ block_state_map[genesis_hash] = ICO_state

\* C28: for every list of 1 to MaxLeaves leaves and every index into it,
\* the proof of the leaf at the index verifies against the root of the tree
C28_MerkleRoundTrip ==
    call.op = "merkle_verifying" => call.verified

\* the last leaf of a list of three leaves, whose neighbour is the padding,
\* has a proof of two digests that verifies
C28_Witness ==
    /\ call.op = "merkle_verifying"
    /\ Len(call.input_data) = 3
    /\ call.index = 2
    /\ Len(call.proof) = 2
    /\ call.verified

\* the locks a thread owns
held(thread) == {l \in Locks : locks.owner[l] = thread}

\* the thread's next step is of kind `kind`
about_to(thread, kind) ==
    /\ locks.rest[thread] # << >>
    /\ Head(locks.rest[thread])[1] = kind

\* C29: a thread that is about to write to a peer or to broadcast owns
\* none of the three locks
C29_NoLockAcrossWrite ==
    \A thread \in Threads : about_to(thread, "write") => held(thread) = {}

\* the place of a lock in the order chain, mempool, block state
rank(l) ==
    CASE l = "blockchain" -> 1
      [] l = "mempool" -> 2
      [] OTHER -> 3

\* the thread waits for a lock another thread (or itself) owns
waits_for(thread) ==
    IF about_to(thread, "lock") /\ locks.owner[Head(locks.rest[thread])[2]] # "free"
    THEN {locks.owner[Head(locks.rest[thread])[2]]}
    ELSE {}

\* a set of threads each of which waits for a lock owned within the set
Deadlock ==
    \E S \in SUBSET Threads :
        /\ S # {}
        /\ \A thread \in S : waits_for(thread) # {} /\ waits_for(thread) \subseteq S

\* C30: a thread that is about to take a lock owns only locks that come
\* before it in the order chain, mempool, block state; and no set of
\* threads is waiting on locks owned within the set
C30_LockOrder ==
    /\ \A thread \in Threads :
           about_to(thread, "lock") =>
               \A l \in held(thread) : rank(l) < rank(Head(locks.rest[thread])[2])
    /\ ~Deadlock

\* a network worker owns the chain lock and waits for the mempool lock,
\* which the miner owns while it waits for the block-state lock
C30_Witness ==
    /\ \E thread \in {"net1", "net2"} :
           /\ held(thread) = {"blockchain"}
           /\ waits_for(thread) = {"miner"}
    /\ held("miner") = {"mempool"}
    /\ waits_for("miner") # {}

(***************************************************************************)
(* Properties of the blocks the miner emits and of what becomes of them.   *)
(***************************************************************************)
\* the transactions applied in content order to a running state: whether
\* each had a value within the sender's balance and the nonce after the
\* sender's, and the state after the last
RECURSIVE checked_replay(_, _)
checked_replay(run, transactions) ==
    IF Len(transactions) = 0 THEN run
    ELSE LET t == Head(transactions).transaction
             s == state_get(run.state, t.sender)
             paid == Put(run.state, t.sender, <<s[1] + 1, s[2] - t.value>>)
             r == state_get(paid, t.receiver)
         IN checked_replay(
                [ok |-> run.ok /\ t.value <= s[2] /\ t.account_nonce = s[1] + 1,
                 state |-> Put(paid, t.receiver, <<r[1], r[2] + t.value>>)],
                Tail(transactions))

\* C31: for every block the miner has put on finished_block, the replay of
\* its transactions in content order from the state of its parent meets no
\* transaction the running state rejects, and ends in the state the miner
\* stored for the block
C31_EmittedReplays ==
    \A i \in DOMAIN finished_block_chan :
        LET block == finished_block_chan[i]
            parent == get_parent(block)
        IN /\ parent \in DOMAIN block_state_map
           /\ hash(block) \in DOMAIN block_state_map
           /\ LET run == checked_replay([ok |-> TRUE, state |-> block_state_map[parent]],
                                        block.content)
              IN /\ run.ok
                 /\ block_state_map[hash(block)] = run.state

\* the miner has emitted a block of two transactions of the same sender,
\* the first of them a self-transfer
C31_Witness ==
    \E i \in DOMAIN finished_block_chan :
        /\ Len(finished_block_chan[i].content) = 2
        /\ finished_block_chan[i].content[1] = tSelf

\* C32: once the miner worker has taken a block from finished_block, every
\* transaction of the block that is no longer in the mempool map is
\* contained in a block of the chain store, also when the tip is no longer
\* the block's parent
C32_IncludedCommitted ==
    [][(WorkerTakes /\ "blockchain" \notin poisoned) =>
          LET block == Head(finished_block_chan)
          IN \A i \in DOMAIN block.content :
                 tx_hash(block.content[i]) \notin DOMAIN transaction_map' =>
                     \E h \in DOMAIN blocks' :
                         block.content[i] \in Range(blocks'[h].content)]_vars

(***************************************************************************)
(* Properties of the Blocks handler.                                       *)
(***************************************************************************)
\* every transaction of the block carries the signature its public key
\* makes of it
all_signed(block) ==
    \A i \in DOMAIN block.content :
        block.content[i].signature = sign(block.content[i].transaction,
                                          block.content[i].public_key)

\* C33: a block of a Blocks message that carries a transaction whose
\* signature does not verify is not in the chain store afterwards and is
\* not named in the broadcast; the parents requested are parents of other
\* blocks of the message; and every block of the message that is valid,
\* new, and whose parent is stored, is in the chain store afterwards
C33_BadSignatureDropped ==
    [][(Handles("Blocks") /\ poisoned = {}) =>
          LET msg == observed'.message.payload
              bad == {i \in DOMAIN msg : ~all_signed(msg[i])}
          IN /\ \A i \in bad :
                    /\ hash(msg[i]) \notin DOMAIN blocks'
                    /\ hash(msg[i]) \notin Range(observed'.broadcast.payload)
             /\ Range(observed'.reply.payload) \subseteq
                    {get_parent(msg[i]) : i \in (DOMAIN msg) \ bad}
             /\ \A i \in (DOMAIN msg) \ bad :
                    (pow_ok(msg[i]) /\ get_parent(msg[i]) \in DOMAIN blocks) =>
                        hash(msg[i]) \in DOMAIN blocks']_vars

\* a message of a block with a badly signed transaction followed by its
\* parent, a valid block, has been handled: the parent alone is stored and
\* broadcast and nothing was requested
C33_Witness ==
    /\ observed.message.type = "Blocks"
    /\ Len(observed.message.payload) = 2
    /\ ~all_signed(observed.message.payload[1])
    /\ get_parent(observed.message.payload[1]) = hash(observed.message.payload[2])
    /\ hash(observed.message.payload[1]) \notin DOMAIN blocks
    /\ hash(observed.message.payload[2]) \in DOMAIN blocks
    /\ observed.broadcast = Message("NewBlockHashes", <<hash(observed.message.payload[2])>>)
    /\ observed.reply = NoMessage

\* C34: when one Blocks message delivers the valid blocks D, C, B in this
\* order, D a child of C, C a child of B and B a child of a stored block,
\* then B, C and D are all in the chain store afterwards and the broadcast
\* names the three of them
C34_TransitiveReconciliation ==
    [][(/\ Handles("Blocks")
        /\ poisoned = {}
        /\ Len(observed'.message.payload) = 3
        /\ LET D == observed'.message.payload[1]
               C == observed'.message.payload[2]
               B == observed'.message.payload[3]
           IN /\ valid_block(B) /\ valid_block(C) /\ valid_block(D)
              /\ get_parent(D) = hash(C)
              /\ get_parent(C) = hash(B)
              /\ get_parent(B) \in DOMAIN blocks
              /\ {hash(B), hash(C), hash(D)} \cap DOMAIN blocks = {}) =>
          LET hs == {hash(observed'.message.payload[i]) : i \in 1..3}
          IN /\ hs \subseteq DOMAIN blocks'
             /\ observed'.broadcast.type = "NewBlockHashes"
             /\ Range(observed'.broadcast.payload) = hs]_vars

\* C35: after a Blocks message has been handled, no transaction of a block
\* the message added to the chain store is in the mempool map
C35_InsertedLeaveMempool ==
    [][(Handles("Blocks") /\ poisoned = {}) =>
          \A h \in (DOMAIN blocks') \ (DOMAIN blocks) :
              \A i \in DOMAIN blocks'[h].content :
                  tx_hash(blocks'[h].content[i]) \notin DOMAIN transaction_map']_vars

\* C36: a pass of the miner through the loop body, begun with no lock
\* poisoned and the miner worker alive, does not end the miner thread and
\* poisons no lock, whatever the mempool holds; and when the pass has
\* written the state of a block that met the target, it has put the block
\* on finished_block
C36_MinerPassNotFatal ==
    [][(/\ miner_pc = "mine"
        /\ miner_pc' = "ctl"
        /\ ~dead.miner
        /\ ~dead.miner_worker
        /\ poisoned = {}) =>
          /\ ~dead'.miner
          /\ poisoned' = {}
          /\ block_state_map' # block_state_map => Emits]_vars

(***************************************************************************)
(* Properties of the transaction generator.                                *)
(***************************************************************************)
\* the transaction a step of the generator builds, against the state of
\* its account at the tip
BuiltValid ==
    (generator.pc = "snapshot" /\ generator'.pc = "insert") =>
        LET t == generator'.tx[1].transaction
            s == IF tip \in DOMAIN block_state_map
                 THEN state_get(block_state_map[tip], t.sender)
                 ELSE <<0, 0>>
            half == s[2] \div 2
        IN /\ tip \in DOMAIN block_state_map
           /\ s[2] # 0
           /\ t.account_nonce = s[1] + 1
           /\ t.value = IF half > 1 THEN half ELSE 1
           /\ 1 <= t.value /\ t.value <= s[2]
           /\ t.receiver = IF generator.receiver_index = 0 THEN a1 ELSE a2

\* the step of the generator that inserts what it built
InsertedAsBuilt ==
    (generator.pc = "insert" /\ generator'.pc = "snapshot") =>
        /\ generator'.receiver_index = 1 - generator.receiver_index
        /\ DOMAIN transaction_map' \subseteq
               DOMAIN transaction_map \cup {tx_hash(generator.tx[1])}
        /\ transaction_set' = transaction_set \cup {tx_hash(generator.tx[1])}

\* C37: the transaction the generator builds from the state s of its
\* account at the tip has nonce s.nonce + 1 and value max(1, s.balance / 2),
\* which is at least 1 and at most s.balance; it builds none when s.balance
\* is 0 or the tip has no state entry; what it inserts into the mempool is
\* the transaction it built; and the receiver of each transaction it builds
\* is the other of its two receivers than that of the one before
C37_GeneratedValid == [][BuiltValid /\ InsertedAsBuilt]_vars

\* the generator has built its second transaction, from the state of a
\* block in which its first one was mined: a quarter of the supply, to the
\* second receiver
C37_Witness ==
    /\ generator.pc = "insert"
    /\ generator.tx[1].transaction = Transaction(a0, a2, ICO_balance \div 4, 2)

\* C38: the drain loop of the Blocks handler comes to an end for every
\* message a peer may send in the present state: the process stack is
\* empty after at most one pass per block pushed, and a block is pushed back
\* at most once per orphan of the buffer
C38_DrainTerminates ==
    \A msg \in BlockBatches :
        LET r == handle_blocks(Chain, Mempool, "mempool" \in poisoned, msg)
        IN /\ r.terminated
           /\ ~r.panicked => r.process_blocks = << >>

\* a message of a child and then its parent has been handled, and the
\* drain loop has installed the child from the orphan buffer
C38_Witness ==
    /\ observed.message.type = "Blocks"
    /\ Len(observed.message.payload) = 2
    /\ get_parent(observed.message.payload[1]) = hash(observed.message.payload[2])
    /\ hash(observed.message.payload[1]) \in DOMAIN blocks
    /\ Len(observed.broadcast.payload) = 2

\* the transactions contained in the blocks of the chain store
Included == UNION {Range(blocks[h].content) : h \in DOMAIN blocks}

\* C39: a transaction contained in a block of the chain store is not in
\* the mempool map after any later step
C39_IncludedStayOut ==
    [][\A tx \in Included : tx_hash(tx) \notin DOMAIN transaction_map']_vars

\* the block the miner emitted last has the tip as its parent
EmittedOnTip ==
    /\ observed.finished # << >>
    /\ observed.finished[1][1] = tip

\* the miner has stopped or a signal is waiting for it, or the model is
\* at a bound
MinerHalted ==
    \/ operating_state # "Run"
    \/ dead.miner
    \/ dead.miner_worker
    \/ poisoned # {}
    \/ control_chan # << >>
    \/ Cardinality(DOMAIN block_state_map) > MaxBlocks
    \/ Cardinality(DOMAIN blocks) > MaxBlocks

\* C40: whenever the miner is Running, it eventually has emitted a block
\* whose parent is the tip, also when the tip is a block accepted from a
\* peer, unless it stops first
C40_MinerProgress ==
    [](operating_state = "Run" => <>(EmittedOnTip \/ MinerHalted))

====
